---- MODULE Spec2Model ----
(***************************************************************************)
(* git-tree: the visibility propagation pass of src/main.rs.               *)
(*                                                                         *)
(* main() asks git for the interesting branches and their merge bases,     *)
(* then includes_excludes() reads `git rev-list --parents --reverse        *)
(* --topo-order HEAD <branches> --not <merge bases>` line by line and      *)
(* computes the include and exclude lists of the final `git log`.          *)
(*                                                                         *)
(* Commits are the numbers 1..NumCommits, numbered so that a commit       *)
(* comes after its parents and a commit git rev-list prints comes after   *)
(* the commits printed before it (any run has such a numbering: first the *)
(* commits the merge bases hide, then the lines in the order printed).    *)
(* A commit stores its parents in any order, and git merge-base prints    *)
(* the merge bases in any order.  A commit's id is the one-byte           *)
(* string <<c>>.  The byte SP (32) is the space that separates the ids of  *)
(* a rev-list line.  Slot indexes are 1-based here (index i of the model   *)
(* is index i-1 of the Vec `nodes`).                                       *)
(*                                                                         *)
(* gitloggraph: the earlier version of the same computation                *)
(* (gitloggraph/internal.rs, gitloggraph/dag.rs), which explores the       *)
(* history from the interesting commits, newest timestamp first, and       *)
(* recomputes the nodes with a worklist until nothing changes.  There a    *)
(* commit's id is its number.                                              *)
(*                                                                         *)
(* GitId: the decoder of hexadecimal object ids (src/git_id.rs).  A byte   *)
(* string is a sequence of numbers 0..255; the arithmetic is that of u8,   *)
(* with the overflow check of the shift taken from the build profile.      *)
(***************************************************************************)
EXTENDS Integers, Sequences, FiniteSets, TLC

\* ------------------------------------------------------------------ bounds
NumCommits == 4
MaxRawLines == 2
MaxRawLen == 2
MaxTime == 2
MaxHexLen == 4
NumDupCommits == 3

\* --------------------------------------------------------------- constants
SP == 32
NoSlot == 0

VARIABLES
    par,              \* the repository: commit -> sequence of its parents
    interesting,      \* commits named by HEAD and the interesting branches
    merge_bases,      \* Vec of merge base ids handed to includes_excludes
    stream,           \* the lines git rev-list writes when it runs to the end
    status,           \* git rev-list: "running", or exited "ok" or "fail"
    pos,              \* number of lines read so far
    nodes,            \* Vec<NodeState>
    free_slots,       \* Vec<usize>
    node_lookup,      \* HashMap<id, index into nodes>
    pc,               \* "reading", "returned", "panicked", "logged"
    result,           \* the pair returned by includes_excludes, or NoResult
    log_args          \* arguments of the final git log, or NoResult

VARIABLES
    timestamp,            \* gitloggraph: commit -> its timestamp
    interesting_commits,  \* gitloggraph: the Vec of interesting commits
    pending,              \* explore_dag: interesting nodes not yet added
    syncer,               \* explore_dag: Syncer {children, nodes, parents}
    to_update,            \* add_node: ids waiting to be recomputed
    queue,                \* explore_dag: BTreeSet of (priority, id)
    explore_cache,        \* explore_dag: id -> node not yet explored
    phase,                \* "off", "explore_dag", "done", "panicked"
    graph_args,           \* the GitLogArgs returned, or NoResult
    turns                 \* add_node: turns taken by the worklist loop that
                          \* is running, 0 when none is

engine_vars == <<par, interesting, merge_bases, stream, status, pos, nodes,
                 free_slots, node_lookup, pc, result, log_args>>

graph_vars == <<timestamp, interesting_commits, pending, syncer, to_update,
                queue, explore_cache, phase, graph_args, turns>>

VARIABLES
    value,                \* GitId::try_from: the bytes to decode
    overflow_checks,      \* build profile: TRUE in debug, FALSE in release
    git_id                \* what try_from did, or NoResult

id_vars == <<value, overflow_checks, git_id>>

vars == <<engine_vars, graph_vars, id_vars>>

NoResult == [none |-> TRUE]

\* ---------------------------------------------------------------- helpers
Range(s) == {s[i] : i \in DOMAIN s}

Min(S) == CHOOSE x \in S : \A y \in S : x <= y

RECURSIVE SortedSeq(_)
SortedSeq(S) == IF S = {} THEN <<>> ELSE <<Min(S)>> \o SortedSeq(S \ {Min(S)})

IdOf(c) == <<c>>

\* the lists of distinct elements of S, in every order
DistinctSeqs(S) ==
    {l \in UNION {[1..n -> S] : n \in 0..Cardinality(S)} :
        \A i, j \in DOMAIN l : i # j => l[i] # l[j]}

\* ------------------------------------------------------ the repository DAG
\* Parent lists of commit c: any older commits, in the order the commit
\* stores them.
ParentLists(c) == DistinctSeqs(1..(c - 1))

RECURSIVE DagsUpTo(_)
DagsUpTo(n) ==
    IF n = 0 THEN {<<>>}
    ELSE {Append(g, ps) : g \in DagsUpTo(n - 1), ps \in ParentLists(n)}

\* every history of at most NumCommits commits, numbered parents first
Dags == UNION {DagsUpTo(n) : n \in 0..NumCommits}

Commits == DOMAIN par

ParentsOf(c) == Range(par[c])

RECURSIVE Ancestry(_)
\* c and everything reachable from c along parent edges
Ancestry(c) == {c} \cup UNION {Ancestry(p) : p \in ParentsOf(c)}

Closure(S) == UNION {Ancestry(c) : c \in S}

\* ---------------------------------------------------- git rev-list output
RECURSIVE JoinParents(_)
JoinParents(ps) ==
    IF ps = <<>> THEN <<>> ELSE <<SP>> \o IdOf(Head(ps)) \o JoinParents(Tail(ps))

\* one line of `git rev-list --parents`, without its newline
FormatLine(g, c) == IdOf(c) \o JoinParents(g[c])

RECURSIVE AncestryIn(_, _)
AncestryIn(g, c) == {c} \cup UNION {AncestryIn(g, g[c][i]) : i \in DOMAIN g[c]}

ClosureIn(g, S) == UNION {AncestryIn(g, c) : c \in S}

\* commits reachable from the tips and not from the bases, parents first
RevListCommits(g, tips, bases) == ClosureIn(g, tips) \ ClosureIn(g, bases)

RevList(g, tips, bases) ==
    LET order == SortedSeq(RevListCommits(g, tips, bases))
    IN  [k \in DOMAIN order |-> FormatLine(g, order[k])]

\* git merge-base -a --octopus: the best common ancestors of all the tips
CommonAncestors(g, tips) == {c \in DOMAIN g : \A t \in tips : c \in AncestryIn(g, t)}

MergeBaseSet(g, tips) ==
    {c \in CommonAncestors(g, tips) :
        \A d \in CommonAncestors(g, tips) : c \in AncestryIn(g, d) => d = c}

\* ------------------------------------------------------------ NodeState
InvisibleChild == "InvisibleChild"
VisibleParent == "VisibleParent"
VisibleChild == "VisibleChild"

\* variant: a node with a child no longer counts as visible
is_visible_childless_only(state) == state = VisibleChild

is_visible(state) == state # InvisibleChild

\* ------------------------------------------------------- record parsing
RECURSIVE SplitFrom(_, _)
\* the id ranges of a line: the fields between spaces, from index start on
SplitFrom(line, start) ==
    LET spaces == {i \in start..Len(line) : line[i] = SP}
    IN  IF spaces = {}
        THEN <<SubSeq(line, start, Len(line))>>
        ELSE <<SubSeq(line, start, Min(spaces) - 1)>>
                 \o SplitFrom(line, Min(spaces) + 1)

id_ranges(line) == SplitFrom(line, 1)

\* the Option<index> each parent id resolves to
LookupParents(lookup, ids) ==
    [k \in DOMAIN ids |->
        IF ids[k] \in DOMAIN lookup THEN lookup[ids[k]] ELSE NoSlot]

\* variant: a parent that is not in the table counts as visible
AnyVisibleParent_or_unknown(ns, parents) ==
    \E k \in DOMAIN parents :
        parents[k] = NoSlot \/ is_visible(ns[parents[k]])

\* variant: only the first parent is looked at
AnyVisibleParent_first_only(ns, parents) ==
    /\ parents # <<>>
    /\ parents[1] # NoSlot
    /\ is_visible(ns[parents[1]])

AnyVisibleParent(ns, parents) ==
    \E k \in DOMAIN parents :
        parents[k] # NoSlot /\ is_visible(ns[parents[k]])

\* variant: the parents of a visible commit are left as they are
PromoteParents_none(ns, parents) == ns

\* visible branch: every resolved VisibleChild parent becomes VisibleParent
PromoteParents(ns, parents) ==
    [i \in DOMAIN ns |->
        IF i \in Range(parents) /\ ns[i] = VisibleChild
        THEN VisibleParent ELSE ns[i]]

\* variant: no parent is ever removed
Forgotten_never(ns, parents, k) == FALSE

\* invisible branch: which listed parents are removed
Forgotten(ns, parents, k) ==
    parents[k] # NoSlot /\ ns[parents[k]] = InvisibleChild

\* variant: the freed parents stay in node_lookup
RemoveParents_none(lookup, ns, ids, parents) == lookup

RemoveParents(lookup, ns, ids, parents) ==
    LET gone == {ids[k] : k \in {j \in DOMAIN ids : Forgotten(ns, parents, j)}}
    IN  [id \in DOMAIN lookup \ gone |-> lookup[id]]

RECURSIVE PushFreed(_, _, _, _)
PushFreed(free, ns, parents, k) ==
    IF k > Len(parents) THEN free
    ELSE PushFreed(IF Forgotten(ns, parents, k)
                   THEN Append(free, parents[k]) ELSE free,
                   ns, parents, k + 1)

Insert(lookup, id, idx) ==
    [x \in DOMAIN lookup \cup {id} |-> IF x = id THEN idx ELSE lookup[x]]

\* variant: the slot that has been free for the longest time is reused
NewIndex_oldest_freed(free, ns) == IF free # <<>> THEN free[1] ELSE Len(ns) + 1

\* slot for the new commit: the last freed slot, else a new one
NewIndex(free, ns) == IF free # <<>> THEN free[Len(free)] ELSE Len(ns) + 1

PopFree(free) == IF free # <<>> THEN SubSeq(free, 1, Len(free) - 1) ELSE free

StoreState(ns, idx, state) ==
    IF idx <= Len(ns) THEN [ns EXCEPT ![idx] = state] ELSE Append(ns, state)

\* ------------------------------------------------------ result extraction
\* variant: every visible entry is included
Includes_all_visible(lookup, ns) == {id \in DOMAIN lookup : is_visible(ns[lookup[id]])}

Includes(lookup, ns) == {id \in DOMAIN lookup : ns[lookup[id]] = VisibleChild}

Excludes(lookup, ns) == {id \in DOMAIN lookup : ns[lookup[id]] = InvisibleChild}

\* number of bytes of the UTF-8 character that starts with byte b, 0 if none
Utf8Width(b) ==
    IF b < 128 THEN 1
    ELSE IF b \in 194..223 THEN 2
    ELSE IF b \in 224..239 THEN 3
    ELSE IF b \in 240..244 THEN 4
    ELSE 0

RECURSIVE Utf8From(_, _)
\* the bytes from index k on are whole, well-formed UTF-8 characters
Utf8From(bytes, k) ==
    IF k > Len(bytes) THEN TRUE
    ELSE LET w == Utf8Width(bytes[k])
         IN  /\ w # 0
             /\ k + w - 1 <= Len(bytes)
             /\ \A j \in 1..(w - 1) : bytes[k + j] \in 128..191
             /\ bytes[k] = 224 => bytes[k + 1] >= 160
             /\ bytes[k] = 237 => bytes[k + 1] <= 159
             /\ bytes[k] = 240 => bytes[k + 1] >= 144
             /\ bytes[k] = 244 => bytes[k + 1] <= 143
             /\ Utf8From(bytes, k + w)

\* String::from_utf8(id) is Ok; the String then holds the same bytes
from_utf8(id) == Utf8From(id, 1)

\* the panic of expect("non-utf-8 id")
NonUtf8Panic == [panic |-> "non-utf-8 id"]

\* the loop over node_lookup that fills includes and excludes
Extract(lookup, ns) ==
    IF \E id \in Includes(lookup, ns) \cup Excludes(lookup, ns) : ~from_utf8(id)
    THEN NonUtf8Panic
    ELSE [includes |-> Includes(lookup, ns), excludes |-> Excludes(lookup, ns)]

\* ---------------------------------------------------------- construction
\* variant: only the first merge base starts as VisibleChild
SeedNodes_first_only(bases) ==
    [i \in 1..Len(bases) |-> IF i = 1 THEN VisibleChild ELSE VisibleParent]

\* variant: the merge bases start as VisibleParent
SeedNodes_as_parent(bases) == [i \in 1..Len(bases) |-> VisibleParent]

\* nodes: one VisibleChild per merge base
SeedNodes(bases) == [i \in 1..Len(bases) |-> VisibleChild]

\* node_lookup: each merge base id maps to its index (the last one wins)
SeedLookup(bases) ==
    [id \in Range(bases) |->
        CHOOSE i \in DOMAIN bases :
            /\ bases[i] = id
            /\ \A j \in DOMAIN bases : bases[j] = id => j <= i]

\* gitloggraph is not running
GraphOff ==
    /\ timestamp = <<>>
    /\ interesting_commits = <<>>
    /\ pending = <<>>
    /\ syncer = [children |-> <<>>, nodes |-> <<>>, parents |-> <<>>]
    /\ to_update = {}
    /\ queue = {}
    /\ explore_cache = <<>>
    /\ phase = "off"
    /\ graph_args = NoResult
    /\ turns = 0

\* GitId::try_from is not called
IdOff ==
    /\ value = <<>>
    /\ overflow_checks = FALSE
    /\ git_id = NoResult

Seed(bases) ==
    /\ GraphOff
    /\ IdOff
    /\ nodes = SeedNodes(bases)
    /\ free_slots = <<>>
    /\ node_lookup = SeedLookup(bases)
    /\ pos = 0
    /\ status = "running"
    /\ pc = "reading"
    /\ result = NoResult
    /\ log_args = NoResult

\* the ids of a list of commits
IdSeq(cs) == [k \in DOMAIN cs |-> IdOf(cs[k])]

\* the merge base lists over at most NumCommits commits, in any order
BaseLists == {IdSeq(cs) : cs \in DistinctSeqs(1..NumCommits)}

BaseCommits == {b[1] : b \in Range(merge_bases)}

\* includes_excludes called with any tips and any bases of any repository
\* (a commit that neither a tip nor a base reaches plays no part: the
\* repository is taken to be the history of the tips and the bases)
Init ==
    /\ par \in Dags
    /\ interesting \in SUBSET Commits
    /\ merge_bases \in BaseLists
    /\ BaseCommits \subseteq Commits
    /\ Commits = Closure(interesting \cup BaseCommits)
    /\ stream = RevList(par, interesting, BaseCommits)
    /\ Seed(merge_bases)

\* parent lists in which one parent may be listed a second time, anywhere
DupParentLists(c) ==
    {l \in UNION {[1..n -> 1..(c - 1)] : n \in 0..c} :
        Cardinality(Range(l)) >= Len(l) - 1}

RECURSIVE DupDagsUpTo(_)
DupDagsUpTo(n) ==
    IF n = 0 THEN {<<>>}
    ELSE {Append(g, ps) : g \in DupDagsUpTo(n - 1), ps \in DupParentLists(n)}

DupDags == UNION {DupDagsUpTo(n) : n \in 0..NumCommits}

\* includes_excludes called for a repository with commits that name the
\* same parent twice
InitDup ==
    /\ par \in DupDags
    /\ interesting \in SUBSET Commits
    /\ merge_bases \in BaseLists
    /\ BaseCommits \subseteq Commits
    /\ Commits = Closure(interesting \cup BaseCommits)
    /\ stream = RevList(par, interesting, BaseCommits)
    /\ Seed(merge_bases)

\* main: the merge bases are the ones git merge-base printed for the tips,
\* and HEAD is always among the tips
InitMain ==
    /\ par \in Dags
    /\ interesting \in SUBSET Commits \ {{}}
    /\ merge_bases \in BaseLists
    /\ Len(merge_bases) = Cardinality(BaseCommits)
    /\ BaseCommits = MergeBaseSet(par, interesting)
    /\ merge_bases # <<>>
    /\ Commits = Closure(interesting)
    /\ stream = RevList(par, interesting, BaseCommits)
    /\ Seed(merge_bases)

\* includes_excludes reading arbitrary lines from the pipe: a space, two
\* one-byte ids, the two bytes of a two-byte character, and a byte that no
\* UTF-8 text holds
RawBytes == {SP, 1, 2, 195, 169, 255}

RawLines == UNION {[1..n -> RawBytes] : n \in 0..MaxRawLen}

InitRaw ==
    /\ par = <<>>
    /\ interesting = {}
    /\ merge_bases \in {IdSeq(cs) : cs \in DistinctSeqs({1, 2})}
    /\ stream \in UNION {[1..n -> RawLines] : n \in 0..MaxRawLines}
    /\ Seed(merge_bases)

\* ---------------------------------------------------------------- actions
\* the body of the read loop: the table, arena and free list after one line
ProcessRecord(ns, free, lookup, line) ==
    LET fields == id_ranges(line)
        id == Head(fields)
        ids == Tail(fields)
        parents == LookupParents(lookup, ids)
        visible == AnyVisibleParent(ns, parents)
        new_state == IF visible THEN VisibleChild ELSE InvisibleChild
        nodes1 == IF visible THEN PromoteParents(ns, parents) ELSE ns
        lookup1 == IF visible THEN lookup
                   ELSE RemoveParents(lookup, ns, ids, parents)
        free1 == IF visible THEN free
                 ELSE PushFreed(free, ns, parents, 1)
        new_idx == NewIndex(free1, nodes1)
    IN  [nodes |-> StoreState(nodes1, new_idx, new_state),
         free_slots |-> PopFree(free1),
         node_lookup |-> Insert(lookup1, id, new_idx)]

\* one iteration of the read loop
ReadRecord ==
    /\ pc = "reading"
    /\ pos < Len(stream)
    /\ id_ranges(stream[pos + 1]) # <<>>    \* else "empty rev-list output line"
    /\ LET after == ProcessRecord(nodes, free_slots, node_lookup,
                                  stream[pos + 1])
       IN  /\ node_lookup' = after.node_lookup
           /\ nodes' = after.nodes
           /\ free_slots' = after.free_slots
    /\ pos' = pos + 1
    /\ UNCHANGED <<par, interesting, merge_bases, stream, status, pc, result,
                   log_args, graph_vars,
                   id_vars>>

\* variant: the pair is returned after any number of records
ReturnResult_any_time ==
    /\ pc = "reading"
    /\ LET out == Extract(node_lookup, nodes)
       IN  IF out = NonUtf8Panic
           THEN pc' = "panicked" /\ UNCHANGED <<status, result>>
           ELSE status' = "ok" /\ result' = out /\ pc' = "returned"
    /\ UNCHANGED <<par, interesting, merge_bases, stream, pos, nodes,
                   free_slots, node_lookup, log_args, graph_vars,
                   id_vars>>

\* end of stream: the lists are extracted, which panics on an id that is
\* not UTF-8; then git is waited for, it exited successfully, and the pair
\* is returned
ReturnResult ==
    /\ pc = "reading"
    /\ pos = Len(stream)
    /\ LET out == Extract(node_lookup, nodes)
       IN  IF out = NonUtf8Panic
           THEN pc' = "panicked" /\ UNCHANGED <<status, result>>
           ELSE status' = "ok" /\ result' = out /\ pc' = "returned"
    /\ UNCHANGED <<par, interesting, merge_bases, stream, pos, nodes,
                   free_slots, node_lookup, log_args, graph_vars,
                   id_vars>>

\* variant: the exit status is not checked, the pair is returned anyway
StatusPanic_unchecked ==
    /\ pc = "reading"
    /\ LET out == Extract(node_lookup, nodes)
       IN  IF out = NonUtf8Panic
           THEN pc' = "panicked" /\ UNCHANGED <<status, result>>
           ELSE status' = "fail" /\ result' = out /\ pc' = "returned"
    /\ UNCHANGED <<par, interesting, merge_bases, stream, pos, nodes,
                   free_slots, node_lookup, log_args, graph_vars,
                   id_vars>>

\* git stops writing after any number of lines and exits unsuccessfully:
\* the read loop sees the end of the stream, the lists are extracted (which
\* panics on an id that is not UTF-8, before git is waited for) and the
\* assertion on the status fails
StatusPanic ==
    /\ pc = "reading"
    /\ status' = IF Extract(node_lookup, nodes) = NonUtf8Panic
                 THEN status ELSE "fail"
    /\ pc' = "panicked"
    /\ UNCHANGED <<par, interesting, merge_bases, stream, pos, nodes,
                   free_slots, node_lookup, result, log_args, graph_vars,
                   id_vars>>

\* variant: the merge bases themselves are excluded
LogNot_bases(bases, excludes) ==
    {[rev |-> b, suffix |-> ""] : b \in Range(bases)}
        \cup {[rev |-> e, suffix |-> ""] : e \in excludes}

\* main: git log <includes> --not <base>^@ ... <excludes>
LogNot(bases, excludes) ==
    {[rev |-> b, suffix |-> "^@"] : b \in Range(bases)}
        \cup {[rev |-> e, suffix |-> ""] : e \in excludes}

\* the arguments git-tree itself is run with: none, an option that keeps
\* only commits without parents, or a path limit
UserArgs == {<<>>, <<"--max-parents=0">>, <<"--", "nofile">>}

\* main: git log <the user's arguments> <includes> --not ...
LaunchLog ==
    /\ pc = "returned"
    /\ \E args \in UserArgs :
           log_args' = [args |-> args,
                        show |-> result.includes,
                        hide |-> LogNot(merge_bases, result.excludes)]
    /\ pc' = "logged"
    /\ UNCHANGED <<par, interesting, merge_bases, stream, status, pos, nodes,
                   free_slots, node_lookup, result, graph_vars,
                   id_vars>>

Next == ReadRecord \/ ReturnResult \/ StatusPanic \/ LaunchLog

Spec == Init /\ [][Next]_vars

SpecMain == InitMain /\ [][Next]_vars

SpecRaw == InitRaw /\ [][Next]_vars

SpecDup == InitDup /\ [][Next]_vars

TypeOK ==
    /\ pc \in {"off", "reading", "returned", "panicked", "logged"}
    /\ phase \in {"off", "explore_dag", "done", "panicked"}
    /\ pos \in 0..Len(stream)
    /\ \A id \in DOMAIN node_lookup : node_lookup[id] \in DOMAIN nodes

\* ------------------------------------------------- gitloggraph: GitNode
\* GitNode::new
GitNode_new(c, is_interesting, n) ==
    [commit |-> TRUE,
     exclude |-> FALSE,
     fully_explored |-> FALSE,
     id |-> c,
     interesting |-> is_interesting,
     num_interesting |-> n,
     priority |-> timestamp[c],
     reachable_from |-> IF is_interesting THEN {c} ELSE {},
     visible |-> is_interesting]

\* PartialEq for GitNode
NodeEq(a, b) ==
    /\ a.exclude = b.exclude
    /\ a.fully_explored = b.fully_explored
    /\ a.reachable_from = b.reachable_from
    /\ a.visible = b.visible

\* GitNode::update, with the nodes of the known children and parents
update(self, children, parents, fully_explored) ==
    LET reachable_from ==
            self.reachable_from \cup UNION {c.reachable_from : c \in children}
        visible ==
            \/ self.interesting
            \/ \E q \in parents : q.visible
            \/ /\ Cardinality(reachable_from) = self.num_interesting
               /\ \A c \in children :
                      Cardinality(c.reachable_from) < self.num_interesting
    IN  [self EXCEPT !.commit = FALSE,
                     !.exclude = ~visible /\ \E c \in children : c.visible,
                     !.fully_explored = fully_explored,
                     !.reachable_from = reachable_from,
                     !.visible = visible]

\* variant: every node is explored until all its parents are known
want_explore_until_roots(self) == ~self.fully_explored

\* variant: a node that is not visible is never explored further
want_explore_visible_only(self) == ~self.fully_explored /\ self.visible

want_explore(self) ==
    /\ ~self.fully_explored
    /\ (self.visible
           \/ Cardinality(self.reachable_from) < self.num_interesting)

\* ---------------------------------------------------- gitloggraph: Syncer
MapPut(f, k, v) == [x \in DOMAIN f \cup {k} |-> IF x = k THEN v ELSE f[x]]

\* HashMap::entry(k).or_insert(v)
OrInsert(f, k, v) == IF k \in DOMAIN f THEN f ELSE MapPut(f, k, v)

NewSyncer == [children |-> <<>>, nodes |-> <<>>, parents |-> <<>>]

\* Syncer::add_node up to the insertion of the node: the maps, and the ids
\* to recompute; the node is pushed to the children of a parent once for
\* every entry of the Vec that names the parent
add_node(s, node, parents) ==
    LET entries(x) == Cardinality({i \in DOMAIN parents : parents[i] = x})
        children1 ==
            [x \in DOMAIN s.children \cup Range(parents) \cup {node.id} |->
                (IF x \in DOMAIN s.children THEN s.children[x] ELSE <<>>)
                    \o [i \in 1..entries(x) |-> node.id]]
        known == Range(parents) \cap DOMAIN s.nodes
    IN  [syncer |-> [children |-> children1,
                     nodes |-> MapPut(s.nodes, node.id, node),
                     parents |-> MapPut(s.parents, node.id, parents)],
         to_update |-> {node.id} \cup Range(children1[node.id]) \cup known]

\* the (priority, id) pairs of the parents of a commit
QueueEntries(cs) == {<<timestamp[c], c>> : c \in cs}

\* variant: only the first parent is put into the cache
CacheParents_first_only(cache, parents, n) ==
    IF parents = <<>> THEN cache
    ELSE OrInsert(cache, Head(parents), GitNode_new(Head(parents), FALSE, n))

RECURSIVE CacheParents(_, _, _)
\* explore_cache.entry(id).or_insert(parent) for each parent
CacheParents(cache, parents, n) ==
    IF parents = <<>> THEN cache
    ELSE CacheParents(OrInsert(cache, Head(parents),
                               GitNode_new(Head(parents), FALSE, n)),
                      Tail(parents), n)

\* the largest element of the BTreeSet: pairs are ordered by priority, then id
Last(q) ==
    CHOOSE e \in q : \A f \in q :
        f[1] < e[1] \/ (f[1] = e[1] /\ f[2] <= e[2])

\* variant: the loop goes on while every node wants exploring
AnyWantExplore_all(s) ==
    \A id \in DOMAIN s.nodes : want_explore(s.nodes[id])

\* syncer.nodes.values().any(|n| n.want_explore())
AnyWantExplore(s) ==
    \E id \in DOMAIN s.nodes : want_explore(s.nodes[id])

\* includes_excludes is not running
EngineOff ==
    /\ merge_bases = <<>>
    /\ stream = <<>>
    /\ status = "off"
    /\ pos = 0
    /\ nodes = <<>>
    /\ free_slots = <<>>
    /\ node_lookup = <<>>
    /\ pc = "off"
    /\ result = NoResult
    /\ log_args = NoResult

\* some element of the list is listed twice
Repeats(l) == Cardinality(Range(l)) < Len(l)

\* the lists of elements of S in which one element may be listed a second
\* time, anywhere
InterestingLists(S) ==
    {l \in UNION {[1..n -> S] : n \in 0..(Cardinality(S) + 1)} :
        Cardinality(Range(l)) >= Len(l) - 1}

\* gitloggraph called with a list of commits of a repository; the repository
\* is the history of these commits (any repository for the empty list), and
\* every commit has a timestamp.  A commit may name a parent twice and the
\* list may name a commit twice, in histories of at most NumDupCommits
\* commits.
InitGraph ==
    /\ par \in DupDags
    /\ (\E c \in Commits : Repeats(par[c])) => Len(par) <= NumDupCommits
    /\ interesting_commits \in InterestingLists(Commits)
    /\ Repeats(interesting_commits) => Len(par) <= NumDupCommits
    /\ interesting = Range(interesting_commits)
    /\ Commits = Closure(interesting) \/ interesting_commits = <<>>
    /\ timestamp \in [Commits -> 1..MaxTime]
    /\ pending = interesting_commits
    /\ syncer = NewSyncer
    /\ to_update = {}
    /\ queue = {}
    /\ explore_cache = <<>>
    /\ phase = "explore_dag"
    /\ graph_args = NoResult
    /\ turns = 0
    /\ EngineOff
    /\ IdOff

\* explore_dag, first loop: the next interesting node is added
AddInteresting ==
    /\ phase = "explore_dag"
    /\ to_update = {}
    /\ pending # <<>>
    /\ LET n == Len(interesting_commits)
           node == GitNode_new(Head(pending), TRUE, n)
           parents == par[node.id]
           added == add_node(syncer, [node EXCEPT !.commit = FALSE], parents)
       IN  /\ queue' = (queue \cup QueueEntries(Range(parents)))
                           \ {<<node.priority, node.id>>}
           /\ explore_cache' = CacheParents(explore_cache, parents, n)
           /\ syncer' = added.syncer
           /\ to_update' = added.to_update
    /\ pending' = Tail(pending)
    /\ UNCHANGED <<timestamp, interesting_commits, phase, graph_args, turns,
                   engine_vars,
                   id_vars>>

\* add_node, one turn of the worklist loop, for any id the set yields
UpdateNode ==
    /\ phase = "explore_dag"
    /\ \E id \in to_update :
          LET known(ids) == {syncer.nodes[x] : x \in Range(ids) \cap DOMAIN syncer.nodes}
              children == known(syncer.children[id])
              parents == known(syncer.parents[id])
              listed == syncer.parents[id]
              len == Cardinality({i \in DOMAIN listed :
                                     listed[i] \in DOMAIN syncer.nodes})
              new_state ==
                  update(syncer.nodes[id], children, parents,
                         len = Len(listed))
          IN  /\ to_update' =
                     IF NodeEq(new_state, syncer.nodes[id])
                     THEN to_update \ {id}
                     ELSE (to_update \ {id})
                              \cup {x.id : x \in children \cup parents}
              /\ syncer' = [syncer EXCEPT !.nodes[id] = new_state]
    /\ turns' = IF to_update' = {} THEN 0 ELSE turns + 1
    /\ UNCHANGED <<timestamp, interesting_commits, pending, queue,
                   explore_cache, phase, graph_args, engine_vars,
                   id_vars>>

\* explore_dag, second loop: the queued commit with the largest priority is
\* taken; unless it is known already, its node is added
ExploreNext ==
    /\ phase = "explore_dag"
    /\ to_update = {}
    /\ pending = <<>>
    /\ AnyWantExplore(syncer)
    /\ IF queue = {}                                  \* "queue ran dry"
       THEN /\ phase' = "panicked"
            /\ UNCHANGED <<queue, explore_cache, syncer, to_update>>
       ELSE LET qe == Last(queue)
                id == qe[2]
            IN  IF id \in DOMAIN syncer.nodes
                THEN /\ queue' = queue \ {qe}
                     /\ UNCHANGED <<explore_cache, syncer, to_update, phase>>
                ELSE IF id \notin DOMAIN explore_cache  \* "cache entry missing"
                THEN /\ queue' = queue \ {qe}
                     /\ phase' = "panicked"
                     /\ UNCHANGED <<explore_cache, syncer, to_update>>
                ELSE LET node == explore_cache[id]
                         n == node.num_interesting
                         parents == par[id]
                         rest == [x \in DOMAIN explore_cache \ {id} |->
                                     explore_cache[x]]
                         added == add_node(syncer,
                                           [node EXCEPT !.commit = FALSE],
                                           parents)
                     IN  /\ queue' =
                                (queue \ {qe}) \cup
                                QueueEntries(Range(parents)
                                                 \ DOMAIN syncer.nodes)
                         /\ explore_cache' = CacheParents(rest, parents, n)
                         /\ syncer' = added.syncer
                         /\ to_update' = added.to_update
                         /\ UNCHANGED phase
    /\ UNCHANGED <<timestamp, interesting_commits, pending, graph_args,
                   turns, engine_vars,
                   id_vars>>

\* explore_dag returns the nodes and gitloggraph builds the GitLogArgs
ReturnArgs ==
    /\ phase = "explore_dag"
    /\ to_update = {}
    /\ pending = <<>>
    /\ ~AnyWantExplore(syncer)
    /\ graph_args' =
           [includes |-> {id \in DOMAIN syncer.nodes :
                             /\ syncer.nodes[id].interesting
                             /\ Cardinality(syncer.nodes[id].reachable_from) = 1},
            excludes |-> {id \in DOMAIN syncer.nodes : syncer.nodes[id].exclude}]
    /\ phase' = "done"
    /\ UNCHANGED <<timestamp, interesting_commits, pending, syncer, to_update,
                   queue, explore_cache, turns, engine_vars,
                   id_vars>>

NextGraph == AddInteresting \/ UpdateNode \/ ExploreNext \/ ReturnArgs

SpecGraph == InitGraph /\ [][NextGraph]_vars

\* ------------------------------------------------------------------- GitId
\* the bytes tried: "0", "1", "4", "9", "A", "F", "a", "f", "g"
HexBytes == {48, 49, 52, 57, 65, 70, 97, 102, 103}

HexInputs == UNION {[1..n -> HexBytes] : n \in 0..MaxHexLen}

Ok(v) == [ok |-> v]

IsOk(r) == "ok" \in DOMAIN r

NotHexError == [err |-> "NotHexError"]

\* the panic of an arithmetic overflow check
ShiftPanic == [panic |-> "attempt to shift left with overflow"]

hex_to_nibble(hex) ==
    IF hex \in 48..57 THEN Ok(hex - 48)                  \* b'0'..=b'9'
    ELSE IF hex \in 97..102 THEN Ok(hex - 97 + 10)       \* b'a'..=b'f'
    ELSE IF hex \in 65..65 THEN Ok(hex - 65 + 10)        \* b'A'..=b'A'
    ELSE NotHexError

RECURSIVE Pow2(_)
Pow2(n) == IF n = 0 THEN 1 ELSE 2 * Pow2(n - 1)

\* lhs << rhs on u8: a shift by 8 bits or more panics when the overflow
\* checks are compiled in, else the shift amount is taken modulo 8; bits
\* shifted out are lost
shl(lhs, rhs, checks) ==
    IF rhs >= 8 /\ checks THEN ShiftPanic
    ELSE Ok((lhs * Pow2(rhs % 8)) % 256)

\* chunk.get(k).copied().map(hex_to_nibble).unwrap_or(Ok(0))
Nibble(chunk, k) ==
    IF k <= Len(chunk) THEN hex_to_nibble(chunk[k]) ELSE Ok(0)

\* the byte pushed for one chunk: `hi? << 4 + lo?` is hi << (4 + lo)
DecodeChunk(chunk, checks) ==
    LET hi == Nibble(chunk, 1)
        lo == Nibble(chunk, 2)
    IN  IF ~IsOk(hi) THEN NotHexError
        ELSE IF ~IsOk(lo) THEN NotHexError
        ELSE shl(hi.ok, (4 + lo.ok) % 256, checks)

RECURSIVE DecodeFrom(_, _, _, _)
\* the loop over value.chunks(2), from the chunk that starts at index k
DecodeFrom(bytes_in, k, bytes, checks) ==
    IF k > Len(bytes_in) THEN Ok(bytes)
    ELSE LET last == IF k + 1 <= Len(bytes_in) THEN k + 1 ELSE k
             byte == DecodeChunk(SubSeq(bytes_in, k, last), checks)
         IN  IF IsOk(byte)
             THEN DecodeFrom(bytes_in, k + 2, Append(bytes, byte.ok), checks)
             ELSE byte

\* GitId::try_from: Ok(the bytes of the GitId), Err(NotHexError) or a panic
try_from(bytes_in, checks) == DecodeFrom(bytes_in, 1, <<>>, checks)

\* try_from is about to be called with any byte string, in either build
InitId ==
    /\ value \in HexInputs
    /\ overflow_checks \in BOOLEAN
    /\ git_id = NoResult
    /\ par = <<>>
    /\ interesting = {}
    /\ EngineOff
    /\ GraphOff

TryFrom ==
    /\ git_id = NoResult
    /\ git_id' = try_from(value, overflow_checks)
    /\ UNCHANGED <<value, overflow_checks, engine_vars, graph_vars>>

NextId == TryFrom

SpecId == InitId /\ [][NextId]_vars

\* ------------------------------------------------- vocabulary of the claims
Returned == pc \in {"returned", "logged"}

\* the commits of the repository that a set of ids names
CommitsOf(ids) == {c \in Commits : IdOf(c) \in ids}

ReachesBase(c) == Ancestry(c) \cap BaseCommits # {}

\* reachable from a tip, and a base is reachable from it
Visible == {c \in Closure(interesting) : ReachesBase(c)}

StrictAncestors(S) == Closure(UNION {ParentsOf(c) : c \in S})

\* no base is an ancestor of another base
BasesIndependent == \A b \in BaseCommits : BaseCommits \cap StrictAncestors({b}) = {}

BasesReachable == BaseCommits \subseteq Closure(interesting)

\* the commits a revision argument of git log names
Resolve(arg) ==
    IF arg.suffix = "^@"
    THEN UNION {ParentsOf(c) : c \in CommitsOf({arg.rev})}
    ELSE CommitsOf({arg.rev})

\* the commits selected by the revision arguments main builds:
\* <includes> --not <base>^@ ... <excludes>
Selected(args) ==
    Closure(CommitsOf(args.show)) \ Closure(UNION {Resolve(a) : a \in args.hide})

\* the commits git log prints: the user's "--" turns every argument after
\* it into a path, which no commit touches; --max-parents=0 keeps the
\* selected commits that have no parent
Shown(args) ==
    IF args.args = <<"--", "nofile">> THEN {}
    ELSE IF args.args = <<"--max-parents=0">>
    THEN {c \in Selected(args) : par[c] = <<>>}
    ELSE Selected(args)

\* the records of the stream, as the read loop splits them
Record(line) ==
    LET fields == id_ranges(line)
    IN  [id |-> Head(fields), parents |-> Range(Tail(fields))]

Records == [k \in 1..Len(stream) |-> Record(stream[k])]

RecId(k) == Record(stream[k]).id

RecParents(k) == Record(stream[k]).parents

BaseIds == Range(merge_bases)

RECURSIVE VisibleUpTo(_, _)
\* the records among the first k that have a parent that is a base or the
\* commit of an earlier visible record
VisibleUpTo(recs, k) ==
    IF k = 0 THEN {}
    ELSE LET before == VisibleUpTo(recs, k - 1)
         IN  IF \E p \in recs[k].parents :
                    p \in BaseIds \/ \E j \in before : recs[j].id = p
             THEN before \cup {k} ELSE before

VisibleRecords == VisibleUpTo(Records, Len(stream))

RecVisible(k) == k \in VisibleRecords

\* every listed parent is a base or the commit of an earlier record
OrderingPrecondition ==
    LET recs == Records
    IN  \A k \in DOMAIN recs : \A p \in recs[k].parents :
            p \in BaseIds \/ \E j \in 1..(k - 1) : recs[j].id = p

\* ids that a record with its index in ks lists as a parent
ListedBy(recs, ks) == UNION {recs[k].parents : k \in ks}

\* ------------------------------------------------------------------ claims

C5_AsStated ==
    (Returned /\ stream = <<>>) =>
        result.includes = {} /\ result.excludes = {}

\* C5 amended: an empty stream gives empty excludes, and includes holds
\* every merge base.
C5_EmptyStream ==
    (Returned /\ stream = <<>>) =>
        result.includes = BaseIds /\ result.excludes = {}

\* the single base is the single tip
C5_Witness ==
    /\ Returned /\ stream = <<>>
    /\ Cardinality(BaseCommits) = 1 /\ interesting = BaseCommits

\* seeded or read commits that a record not yet read after k lines lists
OpenAt(k) ==
    LET recs == Records
    IN  (BaseIds \cup {recs[j].id : j \in 1..k})
            \cap ListedBy(recs, (k + 1)..Len(stream))

Max(S) == CHOOSE x \in S : \A y \in S : y <= x

Malformed(line) == line = <<>> \/ line[1] = SP

\* C7: a record with no leading commit id aborts the computation: once such
\* a line has been read nothing is returned, and no commit with an empty id
\* is ever in the table.
C7_MalformedFatal ==
    /\ <<>> \notin DOMAIN node_lookup
    /\ (\E k \in 1..pos : Malformed(stream[k])) =>
           (pc = "panicked" /\ result = NoResult /\ log_args = NoResult)

\* C8: when git rev-list ends unsuccessfully, after any prefix of the
\* records, no pair is returned and the final git log is never launched.
C8_NoPartialResult ==
    /\ status = "fail" =>
           (pc = "panicked" /\ result = NoResult /\ log_args = NoResult)
    /\ result # NoResult => (status = "ok" /\ pos = Len(stream))
    /\ log_args # NoResult => result # NoResult

\* git failed after a proper prefix that already gave an include and an
\* exclude
C8_Witness ==
    /\ status = "fail" /\ pc = "panicked"
    /\ pos >= 1 /\ pos < Len(stream)
    /\ Includes(node_lookup, nodes) \ BaseIds # {}
    /\ Excludes(node_lookup, nodes) # {}

RECURSIVE RunUpTo(_, _, _)
\* the table, arena and free list of includes_excludes after k lines
RunUpTo(bases, lines, k) ==
    IF k = 0
    THEN [nodes |-> SeedNodes(bases), free_slots |-> <<>>,
          node_lookup |-> SeedLookup(bases)]
    ELSE LET before == RunUpTo(bases, lines, k - 1)
         IN  ProcessRecord(before.nodes, before.free_slots,
                           before.node_lookup, lines[k])

\* the pair includes_excludes returns for a base list and a stream
includes_excludes(bases, lines) ==
    LET end == RunUpTo(bases, lines, Len(lines))
    IN  Extract(end.node_lookup, end.nodes)

RECURSIVE Orders(_)
\* the orders in which a set of base ids can be passed
Orders(B) ==
    IF B = {} THEN {<<>>}
    ELSE UNION {{<<b>> \o rest : rest \in Orders(B \ {b})} : b \in B}

\* the read loop of an engine that never removes an entry and never reuses
\* a slot
ReferenceRecord(ns, lookup, line) ==
    LET fields == id_ranges(line)
        id == Head(fields)
        parents == LookupParents(lookup, Tail(fields))
        visible == AnyVisibleParent(ns, parents)
        nodes1 == IF visible THEN PromoteParents(ns, parents) ELSE ns
    IN  [nodes |-> Append(nodes1, IF visible THEN VisibleChild
                                  ELSE InvisibleChild),
         node_lookup |-> Insert(lookup, id, Len(ns) + 1)]

RECURSIVE ReferenceUpTo(_, _, _)
ReferenceUpTo(bases, lines, k) ==
    IF k = 0
    THEN [nodes |-> SeedNodes(bases), node_lookup |-> SeedLookup(bases)]
    ELSE LET before == ReferenceUpTo(bases, lines, k - 1)
         IN  ReferenceRecord(before.nodes, before.node_lookup, lines[k])

\* a step of the read loop
ReadStep == pc = "reading" /\ pos' = pos + 1

\* the ids of the table that a record lists
Known(rec) == rec.parents \cap DOMAIN node_lookup

\* C11: the state recorded for an id of the table changes only from
\* VisibleChild to VisibleParent; an id of the table whose record was
\* classified visible is never held as InvisibleChild nor reported in
\* excludes, and one classified invisible is never held as visible nor
\* reported in includes, slot reuse included.
C11_MonotoneState ==
    [][/\ \A id \in DOMAIN node_lookup \cap DOMAIN node_lookup' :
              \/ nodes'[node_lookup'[id]] = nodes[node_lookup[id]]
              \/ /\ nodes[node_lookup[id]] = VisibleChild
                 /\ nodes'[node_lookup'[id]] = VisibleParent
       /\ LET recs == Records
              seen == VisibleUpTo(recs, pos')
          IN  \A k \in 1..pos' :
                  /\ recs[k].id \in DOMAIN node_lookup' =>
                         is_visible(nodes'[node_lookup'[recs[k].id]])
                             = (k \in seen)
                  /\ result' # NoResult =>
                         /\ k \in seen => recs[k].id \notin result'.excludes
                         /\ k \notin seen => recs[k].id \notin result'.includes
      ]_vars

\* C12: the pair a run returns for a stream is the pair includes_excludes
\* gives for every other order in which the same base ids can be passed.
C12_Determinism ==
    [][pc' = "returned" =>
          \A bases \in Orders(BaseIds) \ {merge_bases} :
              includes_excludes(bases, stream) = result'
      ]_vars

\* a run with two bases, an exclude and a reused slot, whose table maps an
\* id to another slot when the bases are passed in another order
C12_Witness ==
    /\ pc = "returned"
    /\ result.excludes # {}
    /\ Len(nodes) < Len(merge_bases) + pos
    /\ \E bases \in Orders(BaseIds) :
          RunUpTo(bases, stream, Len(stream)).node_lookup # node_lookup

\* C13: a record that lists ids missing from the table is processed and the
\* loop goes on; the missing ids stay missing, the record is visible exactly
\* when a listed id of the table is visible, entries it does not list are
\* left alone, and when every listed id is missing the record is inserted as
\* InvisibleChild and nothing is promoted or freed.
C13_UnknownParents ==
    [][ReadStep =>
          LET rec == Record(stream[pos'])
              known == Known(rec)
          IN  /\ pc' = "reading"
              /\ rec.id \in DOMAIN node_lookup'
              /\ \A p \in rec.parents \ known : p \notin DOMAIN node_lookup'
              /\ is_visible(nodes'[node_lookup'[rec.id]])
                     = (\E p \in known : is_visible(nodes[node_lookup[p]]))
              /\ \A id \in DOMAIN node_lookup \ known :
                     /\ id \in DOMAIN node_lookup'
                     /\ nodes'[node_lookup'[id]] = nodes[node_lookup[id]]
              /\ known = {} =>
                     /\ nodes'[node_lookup'[rec.id]] = InvisibleChild
                     /\ free_slots' = PopFree(free_slots)
      ]_vars

\* the record just read lists only ids missing from the table, one of them
\* forgotten earlier, while a base is in the table
C13_Witness ==
    /\ pc = "reading" /\ pos >= 2
    /\ merge_bases # <<>>
    /\ RecParents(pos) # {}
    /\ RecParents(pos) \cap DOMAIN node_lookup = {}
    /\ \E j \in 1..(pos - 1) : RecId(j) \in RecParents(pos)
    /\ nodes[node_lookup[RecId(pos)]] = InvisibleChild

\* every streamed commit reaches a base
AllReachBase == \A k \in 1..Len(stream) : ReachesBase(RecId(k)[1])

\* C14 as stated: when every streamed commit reaches a base, excludes is
\* empty, every base and every streamed commit that a record lists ends as
\* VisibleParent, and includes is the streamed commits no record lists.
C14_AsStated ==
    (Returned /\ AllReachBase) =>
        LET recs == Records
            streamed == {recs[k].id : k \in DOMAIN recs}
            listed == ListedBy(recs, DOMAIN recs)
        IN  /\ result.excludes = {}
            /\ \A id \in BaseIds \cup (streamed \cap listed) :
                   nodes[node_lookup[id]] = VisibleParent
            /\ result.includes = streamed \ listed

\* C14 amended: when no base is an ancestor of another base and every
\* streamed commit reaches a base, excludes is empty, every base and every
\* streamed commit that a record lists ends as VisibleParent, and includes is
\* the bases and streamed commits no record lists.
C14_FullyVisible ==
    (Returned /\ BasesIndependent /\ AllReachBase) =>
        LET recs == Records
            streamed == {recs[k].id : k \in DOMAIN recs}
            listed == ListedBy(recs, DOMAIN recs)
        IN  /\ result.excludes = {}
            /\ \A id \in (BaseIds \cup streamed) \cap listed :
                   nodes[node_lookup[id]] = VisibleParent
            /\ result.includes = (BaseIds \cup streamed) \ listed

\* two independent bases, one with a streamed chain above it and one that
\* no record lists
C14_Witness ==
    /\ Returned /\ BasesIndependent /\ AllReachBase
    /\ Cardinality(BaseIds) >= 2
    /\ BaseIds \ ListedBy(Records, 1..Len(stream)) # {}
    /\ \E k \in 1..Len(stream) : nodes[node_lookup[RecId(k)]] = VisibleParent

\* C18: under the ordering precondition, after every record the table holds
\* each of its ids in the state the reference engine holds it in, the record
\* just read included; includes is the reference's includes, and excludes is
\* the reference's InvisibleChild entries that no invisible record read so
\* far lists.
C18_PruningPreserves ==
    (pc = "reading" /\ OrderingPrecondition) =>
        LET ref == ReferenceUpTo(merge_bases, stream, pos)
            recs == Records
            unseen == {k \in 1..pos :
                          ref.nodes[ref.node_lookup[recs[k].id]]
                              = InvisibleChild}
        IN  /\ \A id \in DOMAIN node_lookup :
                   nodes[node_lookup[id]] = ref.nodes[ref.node_lookup[id]]
            /\ pos >= 1 => recs[pos].id \in DOMAIN node_lookup
            /\ Includes(node_lookup, nodes)
                   = Includes(ref.node_lookup, ref.nodes)
            /\ Excludes(node_lookup, nodes)
                   = Excludes(ref.node_lookup, ref.nodes)
                         \ ListedBy(recs, unseen)

\* C19: a step of the read loop removes from the table exactly the listed
\* ids held as InvisibleChild when the record is classified invisible; a
\* streamed id missing from the table stays missing, and is in neither list
\* of the returned pair.
C19_ForgettingRule ==
    [][/\ ReadStep =>
              LET rec == Record(stream[pos'])
                  known == Known(rec)
                  invisible ==
                      \A p \in known : ~is_visible(nodes[node_lookup[p]])
              IN  DOMAIN node_lookup \ DOMAIN node_lookup'
                      = {p \in known :
                            /\ invisible
                            /\ nodes[node_lookup[p]] = InvisibleChild}
       /\ \A k \in 1..pos :
              RecId(k) \notin DOMAIN node_lookup =>
                  /\ RecId(k) \notin DOMAIN node_lookup'
                  /\ result' # NoResult =>
                         RecId(k) \notin result'.includes \cup result'.excludes
      ]_vars

\* a dead branch: a streamed commit was forgotten, its child is the only
\* exclude, and a streamed commit is included
C19_Witness ==
    /\ Returned
    /\ \E r, q \in 1..Len(stream) :
          /\ RecId(r) \notin DOMAIN node_lookup
          /\ RecId(r) \in RecParents(q)
          /\ result.excludes = {RecId(q)}
    /\ result.includes \ BaseIds # {}

\* C20: after every record of a stream that satisfies the ordering
\* precondition and may list a parent twice, every slot of the arena is
\* either mapped by exactly one id of the table or listed exactly once in
\* the free list, never both, and the arena is as long as the table and the
\* free list together.
C20_SlotPartition ==
    (pc = "reading" /\ OrderingPrecondition) =>
        /\ \A i \in DOMAIN nodes :
               Cardinality({id \in DOMAIN node_lookup : node_lookup[id] = i})
                   + Cardinality({k \in DOMAIN free_slots : free_slots[k] = i})
                   = 1
        /\ Len(nodes) = Cardinality(DOMAIN node_lookup) + Len(free_slots)

\* ------------------------------------------------- claims on gitloggraph
Done == phase = "done"

\* the nodes explore_dag has explored
Explored == DOMAIN syncer.nodes

\* (priority, id) of commit a is larger than that of commit b
Newer(a, b) ==
    \/ timestamp[a] > timestamp[b]
    \/ timestamp[a] = timestamp[b] /\ a > b

\* C15 as stated: for a single interesting commit C, includes is [C],
\* excludes is the parents of C, and only C and its parents are explored.
C15_AsStated ==
    (Done /\ Len(interesting_commits) = 1) =>
        LET c == interesting_commits[1]
        IN  /\ graph_args.includes = {c}
            /\ graph_args.excludes = ParentsOf(c)
            /\ Explored = {c} \cup ParentsOf(c)

\* C15 amended: for a single interesting commit C, includes is [C] and
\* excludes is the parents of C; C and its parents are explored, and besides
\* them only ancestors of C that come before some parent of C in the queue,
\* having a newer timestamp, or the same timestamp and a larger id.
C15_SingleCommit ==
    (Done /\ Len(interesting_commits) = 1) =>
        LET c == interesting_commits[1]
        IN  /\ graph_args.includes = {c}
            /\ graph_args.excludes = ParentsOf(c)
            /\ {c} \cup ParentsOf(c) \subseteq Explored
            /\ \A a \in Explored \ ({c} \cup ParentsOf(c)) :
                   /\ a \in Ancestry(c)
                   /\ \E q \in ParentsOf(c) : Newer(a, q)

\* a commit with two parents: a grandparent with a newer timestamp than a
\* parent was explored before that parent
C15_Witness ==
    /\ Done /\ Len(interesting_commits) = 1
    /\ Cardinality(ParentsOf(interesting_commits[1])) = 2
    /\ \E a \in Explored \ ({interesting_commits[1]}
                              \cup ParentsOf(interesting_commits[1])) :
           \E q \in ParentsOf(interesting_commits[1]) :
               timestamp[a] > timestamp[q]

\* C16: every interesting commit is in closure(includes) minus
\* closure(excludes), and every id of includes is an interesting commit.
C16_InterestingShown ==
    Done =>
        /\ graph_args.includes \subseteq interesting
        /\ interesting \subseteq
               Closure(graph_args.includes) \ Closure(graph_args.excludes)

\* two includes and an exclude, with an interesting commit that is an
\* ancestor of another and is not listed in includes
C16_Witness ==
    /\ Done
    /\ graph_args.excludes # {}
    /\ Cardinality(graph_args.includes) >= 2
    /\ interesting \ graph_args.includes # {}

\* C17: for the empty list, explore_dag goes straight to its return without
\* panicking, and gitloggraph returns empty includes and excludes with
\* nothing explored, queued or cached.
C17_EmptyList ==
    interesting_commits = <<>> =>
        /\ phase # "panicked"
        /\ phase = "explore_dag" => ENABLED ReturnArgs
        /\ Done =>
               /\ graph_args = [includes |-> {}, excludes |-> {}]
               /\ syncer = NewSyncer
               /\ queue = {}
               /\ explore_cache = <<>>

\* gitloggraph has returned for the empty list, in a repository with commits
C17_Witness ==
    /\ Done
    /\ interesting_commits = <<>>
    /\ Commits # {}
    /\ graph_args # NoResult

\* ------------------------------------------ frame, allocation, consumption
\* C21: a step of the read loop inserts the record's commit; an entry whose
\* id the record does not list keeps its membership and its state, no other
\* id enters the table, and when the record is visible the listed
\* InvisibleChild entries stay in the table as InvisibleChild.
C21_RecordFrame ==
    [][ReadStep =>
          LET rec == Record(stream[pos'])
              known == Known(rec)
          IN  /\ rec.id \in DOMAIN node_lookup'
              /\ DOMAIN node_lookup' \subseteq DOMAIN node_lookup \cup {rec.id}
              /\ \A id \in DOMAIN node_lookup \ (rec.parents \cup {rec.id}) :
                     /\ id \in DOMAIN node_lookup'
                     /\ nodes'[node_lookup'[id]] = nodes[node_lookup[id]]
              /\ nodes'[node_lookup'[rec.id]] = VisibleChild =>
                     \A p \in known :
                         nodes[node_lookup[p]] = InvisibleChild =>
                             /\ p \in DOMAIN node_lookup'
                             /\ nodes'[node_lookup'[p]] = InvisibleChild
      ]_vars

RECURSIVE FreedSlots(_, _)
\* the slots of the listed ids held as InvisibleChild, in the order listed
FreedSlots(ids, k) ==
    IF k > Len(ids) THEN <<>>
    ELSE (IF ids[k] \in DOMAIN node_lookup
             /\ nodes[node_lookup[ids[k]]] = InvisibleChild
          THEN <<node_lookup[ids[k]]>> ELSE <<>>) \o FreedSlots(ids, k + 1)

RECURSIVE PeakTable(_, _, _, _)
\* the largest size the table had after any of the first n records, the
\* seeded table included
PeakTable(st, k, n, peak) ==
    IF k > n THEN peak
    ELSE LET after == ProcessRecord(st.nodes, st.free_slots, st.node_lookup,
                                    stream[k])
             size == Cardinality(DOMAIN after.node_lookup)
         IN  PeakTable(after, k + 1, n, IF size > peak THEN size ELSE peak)

\* C22: a step of the read loop gives the record's commit the slot freed
\* last, the slots this record frees included, when there is a free slot,
\* and only otherwise a new slot at the end of the arena; the arena never
\* shrinks and is never longer than the largest size the table has had.
C22_AllocationPolicy ==
    [][ReadStep =>
          LET fields == id_ranges(stream[pos'])
              visible == nodes'[node_lookup'[Head(fields)]] # InvisibleChild
              pool == IF visible THEN free_slots
                      ELSE free_slots \o FreedSlots(Tail(fields), 1)
          IN  /\ pool # <<>> =>
                     /\ node_lookup'[Head(fields)] = pool[Len(pool)]
                     /\ free_slots' = SubSeq(pool, 1, Len(pool) - 1)
                     /\ Len(nodes') = Len(nodes)
              /\ pool = <<>> =>
                     /\ node_lookup'[Head(fields)] = Len(nodes) + 1
                     /\ free_slots' = <<>>
                     /\ Len(nodes') = Len(nodes) + 1
              /\ Len(nodes') >= Len(nodes)
              /\ Len(nodes') <=
                     PeakTable(RunUpTo(merge_bases, stream, 0), 1, pos',
                               Len(merge_bases))
      ]_vars

\* a record found two free slots and took the one freed last, and a later
\* record took the other one instead of growing the arena
C22_Witness ==
    /\ pc = "reading" /\ pos >= 4
    /\ free_slots = <<>>
    /\ Len(RunUpTo(merge_bases, stream, pos - 1).free_slots) = 1
    /\ Len(nodes) < Len(merge_bases) + pos - 1

\* C23: the records are processed one at a time in stream order, each once:
\* a step reads the next line or none, the table after k lines is the fold
\* of the loop body over the first k lines, while lines are left the next
\* one is a record for the loop body and no pair can be returned, at the end
\* of the stream the pair can be returned, and a returned pair is extracted
\* from the table of the whole stream.
C23_ExhaustiveConsumption ==
    [][/\ pos' = pos \/ (pos' = pos + 1 /\ pos < Len(stream))
       /\ ReadStep =>
              [nodes |-> nodes', free_slots |-> free_slots',
               node_lookup |-> node_lookup']
                  = RunUpTo(merge_bases, stream, pos')
       /\ pc = "reading" =>
              IF pos < Len(stream)
              THEN /\ id_ranges(stream[pos + 1]) # <<>>
                   /\ ~ENABLED ReturnResult
              ELSE ENABLED ReturnResult
       /\ result' # NoResult =>
              /\ pos' = Len(stream)
              /\ result' = includes_excludes(merge_bases, stream)
      ]_vars

\* the pair was returned after a stream of three records with an include
\* and an exclude
C23_Witness ==
    /\ pc = "returned"
    /\ Len(stream) >= 3 /\ pos = Len(stream)
    /\ result.includes # {} /\ result.excludes # {}

\* ------------------------------------------------ termination of the prototype
\* the second loop of explore_dag is at its test and the test holds
LoopWantsMore ==
    /\ phase = "explore_dag"
    /\ to_update = {}
    /\ pending = <<>>
    /\ AnyWantExplore(syncer)

\* the work left to the two loops of explore_dag: interesting nodes to add,
\* commits that are no node yet, queue entries (at most one for a commit)
OuterRank ==
    (Len(pending) * (NumCommits + 1)
         + Cardinality(Commits \ DOMAIN syncer.nodes)) * (NumCommits + 1)
        + Cardinality(queue)

\* the turns one worklist loop takes at most
MaxTurns == NumCommits * NumCommits

\* C24: for every DAG and every list of distinct interesting commits, neither
\* expectation of explore_dag fails, and whenever the second loop goes on the
\* queue holds an id that is not a node yet and is in explore_cache; every
\* worklist loop, its turns taken in any order, ends within MaxTurns turns;
\* and every other step of explore_dag that does not return leaves less work
\* to the two loops, so that no run goes on for ever.
C24_TerminatesNoPanic ==
    /\ [](/\ phase # "panicked"
          /\ LoopWantsMore =>
                 \E qe \in queue : /\ qe[2] \notin DOMAIN syncer.nodes
                                   /\ qe[2] \in DOMAIN explore_cache)
    /\ [](turns < MaxTurns)
    /\ [][phase' = "explore_dag" =>
              \/ OuterRank' < OuterRank
              \/ /\ OuterRank' = OuterRank
                 /\ to_update # {}
                 /\ turns' = turns + 1 \/ to_update' = {}]_vars

\* gitloggraph has returned after the second loop skipped a queued id that
\* was a node already and explored a commit from the cache, with two
\* interesting commits
C24_Witness ==
    /\ Done
    /\ Len(interesting_commits) >= 2
    /\ DOMAIN syncer.nodes \ interesting # {}
    /\ \E c \in interesting : \E d \in interesting : c \in Range(par[d])

\* ---------------------------------------------------------- GitId decoding
\* C25: try_from never panics; it returns Err(NotHexError) exactly when some
\* byte is not one of 0-9, a-f, A-F; for an even number of hex digits it
\* returns the bytes 16 * (digit 2i) + (digit 2i+1), and no other such string
\* decodes to an equal GitId.
C25_HexDecoding ==
    git_id # NoResult =>
        LET digit(b) == b \in (48..57) \cup (97..102) \cup (65..70)
            val(b) == IF b \in 48..57 THEN b - 48
                      ELSE IF b \in 97..102 THEN b - 87 ELSE b - 55
            hex(w) == \A k \in DOMAIN w : digit(w[k])
            expected(w) ==
                [i \in 1..(Len(w) \div 2) |->
                    16 * val(w[2 * i - 1]) + val(w[2 * i])]
        IN  /\ "panic" \notin DOMAIN git_id
            /\ git_id = NotHexError <=> ~hex(value)
            /\ (hex(value) /\ Len(value) % 2 = 0) =>
                   /\ git_id = Ok(expected(value))
                   /\ \A w \in HexInputs :
                          (hex(w) /\ Len(w) % 2 = 0 /\ w # value) =>
                              try_from(w, overflow_checks) # git_id
====
